---- MODULE Spec2Model ----
(***************************************************************************)
(* PersonaMorph: the job orchestration and persistence layer.              *)
(*                                                                         *)
(* The model follows App (handleGenerate, processJob, loadData, the delete *)
(* and clear handlers), DBService (the IndexedDB object stores and         *)
(* cleanupStuckJobs) and the two copies of geminiService that the          *)
(* repository holds (createCharacterPrompt, generateCharacterImage,        *)
(* withRetry, withTimeout, getErrorMessage).                               *)
(*                                                                         *)
(* Every await of the code is a suspension point: the code up to an await  *)
(* is one action, and the code from the await's settlement to the next     *)
(* await is one action.  Requests on one IndexedDB object store settle in  *)
(* the order in which they were made, which the model keeps as a queue per *)
(* object store.                                                           *)
(***************************************************************************)
EXTENDS Integers, Sequences, FiniteSets, TLC

VARIABLES
    images,               \* object store 'images': job id -> GeneratedImage
    charStore,            \* object store 'characters': set of Character
    imgQueue,             \* requests made on 'images' that have not settled
    charQueue,            \* requests made on 'characters' that have not settled
    generatedImages,      \* App state: GeneratedImage[]
    characters,           \* App state: Character[]
    selectedCharacterId,  \* App state
    sourceImage,          \* App state
    loadPc,               \* position of loadData
    stuckJobs,            \* cleanupStuckJobs: the stuck jobs not yet rewritten
    tasks,                \* job id -> position of handleGenerate / processJob
    lastGenerate,         \* how the last call of handleGenerate went
    nextId,               \* number of ids uuidv4 has handed out
    now,                  \* the value Date.now() returned last
    build,                \* which copy of geminiService the build bundles
    faults,               \* put requests the storage has rejected so far
    reloads,              \* page reloads so far
    isClearDialogOpen,    \* App state
    nextCharId            \* number of ids the character form has handed out

vars == <<images, charStore, imgQueue, charQueue, generatedImages, characters,
          selectedCharacterId, sourceImage, loadPc, stuckJobs, tasks,
          lastGenerate, nextId, now, build, faults, reloads, isClearDialogOpen,
          nextCharId>>

-----------------------------------------------------------------------------
(* Bounds of the model *)

MaxJobs == 1
MaxTime == 1
MaxFaults == 1
MaxReloads == 1
MaxChars == 1
MaxQueue == 2
SweepJobs == 2
FormChars == 2
FormJobs == 1
MaxRetries == 3
MaxAvatars == 1
ClearQueue == 3

-----------------------------------------------------------------------------
(* Values *)

\* An optional field that is absent (undefined / null).
NoValue == <<"undefined">>

\* selectedCharacterId when no character is selected (null).
NoId == 0

\* Messages are sequences of text pieces, so that a template literal is the
\* concatenation of its pieces.
Text(s) == <<s>>

PendingPrompt == Text("Pending analysis...")
FailedPrompt == Text("Failed")
InterruptedMessage == Text("Interrupted by page reload")
NoDescriptionMessage == Text("Analysis failed: No description generated.")
UnknownErrorMessage == Text("Unknown error")
AnalysisTimeoutMessage ==
    Text("Timeout analyzing source image. The server took too long to respond.")
EmptyDescriptionMessage ==
    Text("Gemini returned an empty description. Please try again or use a clearer image.")
GenerationTimeoutMessage == Text("Timeout waiting for Nano Banana Pro.")
NoImageDataMessage == Text("No image data found in the response from Gemini.")
NoImageGeneratedMessage == Text("No image generated.")

BlockedMessage(reason) ==
    <<"Gemini blocked the request. Reason: ", reason, ". Try a different image.">>
AnalysisRefusedMessage(reason) ==
    <<"Analysis refused. Reason: ", reason,
      ". The image may have triggered safety filters.">>
GenerationRefusedMessage(reason) == <<"Generation refused. Reason: ", reason>>

\* The Character records the form can produce (CharacterForm.handleSubmit):
\* one without and one with a reference avatar.
CharacterOf(id) ==
    [id |-> id, avatarImage |-> IF id % 2 = 1 THEN NoValue ELSE Text("AVATAR")]

GeneratedImage(id, characterId, imageData, prompt, createdAt, status, errorMessage) ==
    [id |-> id, characterId |-> characterId, imageData |-> imageData,
     prompt |-> prompt, createdAt |-> createdAt, status |-> status,
     errorMessage |-> errorMessage]

Range(s) == {s[i] : i \in DOMAIN s}

-----------------------------------------------------------------------------
(* Values a rejected promise can carry *)

NativeError(message) ==
    [isError |-> TRUE, isObject |-> TRUE, nested |-> NoValue,
     message |-> message, json |-> Text("{}")]
ApiErrorObject(message) ==
    [isError |-> FALSE, isObject |-> TRUE, nested |-> message,
     message |-> NoValue, json |-> <<"{\"error\":{\"message\":\"", message[1], "\"}}">>]
ThrownString(s) ==
    [isError |-> FALSE, isObject |-> FALSE, nested |-> NoValue,
     message |-> NoValue, json |-> <<"\"", s, "\"">>]

\* What the remote call can reject with.
GatewayErrors ==
    {NativeError(Text("500 Internal")), ApiErrorObject(Text("quota exceeded"))}

\* A plain object { error: { message: nested }, message: message }, either
\* field possibly absent, with its JSON text.
ThrownObject(nested, message, json) ==
    [isError |-> FALSE, isObject |-> TRUE, nested |-> nested,
     message |-> message, json |-> json]

\* An Error that also has an error.message, like an Error subclass of the
\* SDK that carries the body of the response.
NativeErrorWithBody(message, nested) ==
    [isError |-> TRUE, isObject |-> TRUE, nested |-> nested,
     message |-> message, json |-> Text("{}")]

\* null, for which JSON.stringify gives "null", and undefined, for which
\* JSON.stringify gives undefined.
ThrownNull ==
    [isError |-> FALSE, isObject |-> FALSE, nested |-> NoValue,
     message |-> NoValue, json |-> Text("null")]
ThrownUndefined ==
    [isError |-> FALSE, isObject |-> FALSE, nested |-> NoValue,
     message |-> NoValue, json |-> NoValue]

\* What a promise can reject with: getErrorMessage takes any value.
ThrownValues ==
    GatewayErrors
       \cup {NativeErrorWithBody(Text("503 Unavailable"), Text("overloaded")),
             ThrownObject(Text("inner"), Text("outer"),
                          Text("{\"error\":{\"message\":\"inner\"},\"message\":\"outer\"}")),
             ThrownObject(NoValue, Text("outer"), Text("{\"message\":\"outer\"}")),
             ThrownObject(NoValue, NoValue, Text("{\"code\":500}")),
             ThrownObject(Text(""), Text("outer"),
                          Text("{\"error\":{\"message\":\"\"},\"message\":\"outer\"}")),
             ThrownObject(NoValue, Text(""), Text("{\"message\":\"\"}")),
             ThrownString("boom"),
             ThrownNull,
             ThrownUndefined}

\* A message is truthy unless it is absent or the empty string.
Truthy(m) == m # NoValue /\ m # Text("")

getErrorMessage(error) ==
    IF error.isError THEN error.message
    ELSE IF error.isObject /\ Truthy(error.nested) THEN error.nested
    ELSE IF error.isObject /\ Truthy(error.message) THEN error.message
    ELSE error.json

-----------------------------------------------------------------------------
(* geminiService: the two copies the repository holds *)

\* The copy with withTimeout around each call and explicit retry arguments,
\* and the copy that calls withRetry with its defaults and has no timeout.
GuardedBuild == "part_002"
PlainBuild == "part_001"
Builds == {GuardedBuild, PlainBuild}

DefaultRetries == 1
DefaultDelayMs == 1000
AnalysisRetries == 2
AnalysisDelayMs == 1000
GenerationRetries == 3
GenerationDelayMs == 2000
AnalysisTimeoutMs == 60000
GenerationTimeoutMs == 110000

\* The arguments createCharacterPrompt / generateCharacterImage give withRetry.
analysisRetries(b) == IF b = GuardedBuild THEN AnalysisRetries ELSE DefaultRetries
analysisDelayMs(b) == IF b = GuardedBuild THEN AnalysisDelayMs ELSE DefaultDelayMs
generationRetries(b) == IF b = GuardedBuild THEN GenerationRetries ELSE DefaultRetries
generationDelayMs(b) == IF b = GuardedBuild THEN GenerationDelayMs ELSE DefaultDelayMs

Returned(value) == [ok |-> TRUE, value |-> value, error |-> NativeError(Text(""))]
Thrown(error) == [ok |-> FALSE, value |-> NoValue, error |-> error]

\* What generateContent can answer in stage 1: a text (possibly empty) and the
\* first candidate's finishReason (possibly absent).
FinishReasons == {NoValue, Text("SAFETY")}
AnalysisResponses ==
    {[text |-> Text("P"), finishReason |-> Text("STOP")]}
        \cup {[text |-> Text(""), finishReason |-> r] : r \in FinishReasons}

\* What generateContent can answer in stage 2: an inline image part or none,
\* and the first candidate's finishReason.
GenerationResponses ==
    {[data |-> Text("IMG"), finishReason |-> Text("STOP")]}
        \cup {[data |-> NoValue, finishReason |-> r] : r \in {Text("STOP"), Text("SAFETY")}}

\* performAnalysis after the call has answered.
performAnalysis(b, response) ==
    IF b = GuardedBuild
    THEN IF ~Truthy(response.text)
         THEN IF Truthy(response.finishReason)
              THEN Thrown(NativeError(BlockedMessage(response.finishReason[1])))
              ELSE Thrown(NativeError(EmptyDescriptionMessage))
         ELSE Returned(response.text)
    ELSE IF ~Truthy(response.text) /\ Truthy(response.finishReason)
                /\ response.finishReason # Text("STOP")
         THEN Thrown(NativeError(AnalysisRefusedMessage(response.finishReason[1])))
         ELSE Returned(IF Truthy(response.text) THEN response.text ELSE Text(""))

\* performGeneration after the call has answered.
performGeneration(b, response) ==
    IF Truthy(response.data) THEN Returned(response.data)
    ELSE IF b = GuardedBuild THEN Thrown(NativeError(NoImageDataMessage))
    ELSE IF Truthy(response.finishReason) /\ response.finishReason # Text("STOP")
         THEN Thrown(NativeError(GenerationRefusedMessage(response.finishReason[1])))
         ELSE Thrown(NativeError(NoImageGeneratedMessage))

\* new Error(msg): an absent message gives the empty message.
newError(msg) == NativeError(IF msg = NoValue THEN Text("") ELSE msg)

\* The catch of createCharacterPrompt / generateCharacterImage: the guarded
\* copy rethrows a native Error carrying the normalized message, the plain
\* copy lets the rejection of withRetry through.
rethrow(b, error) ==
    IF b = GuardedBuild THEN newError(getErrorMessage(error)) ELSE error

\* The error a rejected IndexedDB request carries (request.error).
StorageError == NativeError(Text("QuotaExceededError"))

-----------------------------------------------------------------------------
(* DBService *)

NoRecord == [id |-> NoId]

Request(op, rec, id, cont) == [op |-> op, rec |-> rec, id |-> id, cont |-> cont]

\* store.put(image): upsert keyed by id.
put(store, image) ==
    [k \in DOMAIN store \cup {image.id} |-> IF k = image.id THEN image ELSE store[k]]

\* store.delete(id)
delete(store, id) == [k \in DOMAIN store \ {id} |-> store[k]]

\* A comparator that puts the oldest record first.
OldestFirst(a, b) ==
    \/ a.createdAt < b.createdAt
    \/ a.createdAt = b.createdAt /\ a.id < b.id

\* The comparator of getAllImages, (a, b) => b.createdAt - a.createdAt, on
\* the key-ordered result of store.getAll(); the sort is stable.
Before(a, b) ==
    \/ a.createdAt > b.createdAt
    \/ a.createdAt = b.createdAt /\ a.id < b.id

RECURSIVE sorted(_)
sorted(recs) ==
    IF recs = {} THEN <<>>
    ELSE LET first == CHOOSE r \in recs : \A o \in recs \ {r} : Before(r, o)
         IN <<first>> \o sorted(recs \ {first})

getAllImages(store) == sorted({store[k] : k \in DOMAIN store})

\* A filter that looks for a status no job has.
stuckPending(imgs) == SelectSeq(imgs, LAMBDA img : img.status = "pending")

\* A filter that takes every job that has not failed for a stuck one.
stuckUnlessFailed(imgs) == SelectSeq(imgs, LAMBDA img : img.status # "failed")

\* images.filter(img => img.status === 'processing')
stuck(imgs) == SelectSeq(imgs, LAMBDA img : img.status = "processing")

\* A rewrite that, like the catch block of processJob, also marks the prompt.
interruptedAsFailed(job) ==
    [job EXCEPT !.status = "failed", !.errorMessage = InterruptedMessage,
                !.prompt = FailedPrompt]

\* A rewrite that forgets the status and refreshes createdAt.
interruptedStillProcessing(job) ==
    [job EXCEPT !.errorMessage = InterruptedMessage, !.createdAt = @ + 1]

\* A rewrite that sets the status and forgets the message.
interruptedWithoutMessage(job) == [job EXCEPT !.status = "failed"]

\* { ...job, status: 'failed', errorMessage: 'Interrupted by page reload' }
interrupted(job) ==
    [job EXCEPT !.status = "failed", !.errorMessage = InterruptedMessage]

\* cleanupStuckJobs run to its end with nothing else acting on the store: one
\* saveImage per stuck job, in the order of the list.
RECURSIVE saveAll(_, _)
saveAll(store, jobs) ==
    IF jobs = <<>> THEN store
    ELSE saveAll(put(store, interrupted(Head(jobs))), Tail(jobs))

cleanupResult(store) == saveAll(store, stuck(getAllImages(store)))

\* store.getAll() on 'characters': in key order.
RECURSIVE byId(_)
byId(chars) ==
    IF chars = {} THEN <<>>
    ELSE LET first == CHOOSE c \in chars : \A o \in chars \ {c} : c.id < o.id
         IN <<first>> \o byId(chars \ {first})

-----------------------------------------------------------------------------
(* App: the state updaters *)

\* An update that writes the job over the newest element of the list.
replaceNewest(prev, jobId, job) ==
    [i \in DOMAIN prev |-> IF i = 1 THEN job ELSE prev[i]]

\* prev.map(img => img.id === jobId ? job : img)
replaceById(prev, jobId, job) ==
    [i \in DOMAIN prev |-> IF prev[i].id = jobId THEN job ELSE prev[i]]

\* prev.filter(img => img.id !== id)
removeById(prev, id) == SelectSeq(prev, LAMBDA x : x.id # id)

\* characters.find(c => c.id === selectedCharacterId)
find(chars, id) ==
    IF \E i \in DOMAIN chars : chars[i].id = id
    THEN chars[CHOOSE i \in DOMAIN chars :
                   chars[i].id = id /\ \A k \in DOMAIN chars : chars[k].id = id => i <= k]
    ELSE NoRecord

\* error instanceof Error ? error.message : "Unknown error"
jobErrorMessage(error) ==
    IF error.isError THEN error.message ELSE UnknownErrorMessage

\* The values Date.now() can return: time has stood still or moved on.
DateNow == {t \in {now, now + 1} : t <= MaxTime}

-----------------------------------------------------------------------------
(* Initial state: the page has mounted with an empty database, and the     *)
(* mount effect has called loadData, whose cleanupStuckJobs has made its   *)
(* getAll request.                                                         *)

NoImages == [k \in {} |-> NoRecord]
MountQueue == <<Request("getAll", NoRecord, 0, "cleanup_read")>>

Init ==
    /\ images = NoImages
    /\ charStore = {}
    /\ imgQueue = MountQueue
    /\ charQueue = <<>>
    /\ generatedImages = <<>>
    /\ characters = <<>>
    /\ selectedCharacterId = NoId
    /\ sourceImage = NoValue
    /\ loadPc = "cleanup"
    /\ stuckJobs = <<>>
    /\ tasks = [k \in {} |-> NoRecord]
    /\ lastGenerate = "none"
    /\ nextId = 0
    /\ now = 0
    /\ build \in Builds
    /\ faults = 0
    /\ reloads = 0
    /\ isClearDialogOpen = FALSE
    /\ nextCharId = 0

\* The request at the head of the 'images' queue settles next.
Settling(cont) == imgQueue # <<>> /\ Head(imgQueue).cont = cont

\* The storage can reject a put request.
CanReject == faults < MaxFaults

-----------------------------------------------------------------------------
(* loadData and cleanupStuckJobs *)

\* The place of the job with this id in the loop over stuckJobs.
position(jobs, id) == CHOOSE i \in DOMAIN jobs : jobs[i].id = id

\* cleanupStuckJobs: getAllImages has answered; filter, and start the loop.
cleanupStuckJobs ==
    /\ Settling("cleanup_read")
    /\ LET found == stuck(getAllImages(images))
       IN IF found = <<>>
          THEN /\ loadPc' = "characters"
               /\ imgQueue' = Tail(imgQueue)
               /\ charQueue' = Append(charQueue, [op |-> "getAll", ch |-> NoRecord,
                                                  sel |-> NoId])
               /\ stuckJobs' = <<>>
          ELSE /\ loadPc' = "cleanup"
               /\ imgQueue' = Append(Tail(imgQueue),
                                     Request("put", interrupted(found[1]),
                                             found[1].id, "cleanup_write"))
               /\ charQueue' = charQueue
               /\ stuckJobs' = found
    /\ UNCHANGED <<images, charStore, generatedImages, characters,
                   selectedCharacterId, sourceImage, tasks, lastGenerate, nextId,
                   now, build, faults, reloads, isClearDialogOpen, nextCharId>>

\* A sweep that, when a write of its loop is stored, fails whatever is
\* processing in the store by then.
cleanupWriteRescans ==
    /\ Settling("cleanup_write")
    /\ images' = cleanupResult(put(images, Head(imgQueue).rec))
    /\ loadPc' = "characters"
    /\ imgQueue' = Tail(imgQueue)
    /\ charQueue' = Append(charQueue, [op |-> "getAll", ch |-> NoRecord,
                                       sel |-> NoId])
    /\ UNCHANGED <<stuckJobs, charStore, generatedImages, characters, selectedCharacterId,
                   sourceImage, tasks, lastGenerate, nextId, now, build, faults,
                   reloads, isClearDialogOpen, nextCharId>>

\* cleanupStuckJobs: one saveImage of the loop has been stored; go on with
\* the next stuck job, or return to loadData, which asks for the characters.
cleanupWrite ==
    /\ Settling("cleanup_write")
    /\ images' = put(images, Head(imgQueue).rec)
    /\ LET i == position(stuckJobs, Head(imgQueue).id)
       IN IF i = Len(stuckJobs)
          THEN /\ loadPc' = "characters"
               /\ imgQueue' = Tail(imgQueue)
               /\ charQueue' = Append(charQueue, [op |-> "getAll", ch |-> NoRecord,
                                                  sel |-> NoId])
          ELSE /\ loadPc' = "cleanup"
               /\ imgQueue' = Append(Tail(imgQueue),
                                     Request("put", interrupted(stuckJobs[i + 1]),
                                             stuckJobs[i + 1].id, "cleanup_write"))
               /\ charQueue' = charQueue
    /\ UNCHANGED <<stuckJobs, charStore, generatedImages, characters, selectedCharacterId,
                   sourceImage, tasks, lastGenerate, nextId, now, build, faults,
                   reloads, isClearDialogOpen, nextCharId>>

\* A saveImage of the loop is rejected: cleanupStuckJobs rejects and the
\* catch of loadData logs it; nothing is loaded.
cleanupWriteRejected ==
    /\ Settling("cleanup_write")
    /\ CanReject
    /\ faults' = faults + 1
    /\ imgQueue' = Tail(imgQueue)
    /\ loadPc' = "failed"
    /\ UNCHANGED <<stuckJobs, images, charStore, charQueue, generatedImages, characters,
                   selectedCharacterId, sourceImage, tasks, lastGenerate, nextId,
                   now, build, reloads, isClearDialogOpen, nextCharId>>

\* loadData: getAllCharacters has answered.
loadCharacters ==
    /\ charQueue # <<>> /\ Head(charQueue).op = "getAll"
    /\ LET chars == byId(charStore)
       IN /\ characters' = chars
          /\ selectedCharacterId' =
                 IF Len(chars) > 0 THEN chars[1].id ELSE selectedCharacterId
    /\ charQueue' = Tail(charQueue)
    /\ imgQueue' = Append(imgQueue, Request("getAll", NoRecord, 0, "load_images"))
    /\ loadPc' = "images"
    /\ UNCHANGED <<images, charStore, generatedImages, sourceImage, stuckJobs,
                   tasks, lastGenerate, nextId, now, build, faults, reloads,
                   isClearDialogOpen, nextCharId>>

\* loadData: getAllImages has answered.
loadImages ==
    /\ Settling("load_images")
    /\ generatedImages' = getAllImages(images)
    /\ imgQueue' = Tail(imgQueue)
    /\ loadPc' = "done"
    /\ UNCHANGED <<images, charStore, charQueue, characters, selectedCharacterId,
                   sourceImage, stuckJobs, tasks, lastGenerate, nextId, now,
                   build, faults, reloads, isClearDialogOpen, nextCharId>>

-----------------------------------------------------------------------------
(* Characters and the source image *)

\* ImageUploader.processFile / the paste listener: setSourceImage(resized)
setSourceImage ==
    /\ sourceImage = NoValue
    /\ sourceImage' = Text("SRC")
    /\ UNCHANGED <<images, charStore, imgQueue, charQueue, generatedImages,
                   characters, selectedCharacterId, loadPc, stuckJobs, tasks,
                   lastGenerate, nextId, now, build, faults, reloads,
                   isClearDialogOpen, nextCharId>>

\* ImageUploader: a click on the selected image, onImageSelect(null)
clearSourceImage ==
    /\ sourceImage # NoValue
    /\ sourceImage' = NoValue
    /\ UNCHANGED <<images, charStore, imgQueue, charQueue, generatedImages,
                   characters, selectedCharacterId, loadPc, stuckJobs, tasks,
                   lastGenerate, nextId, now, build, faults, reloads,
                   isClearDialogOpen, nextCharId>>

\* CharacterList.onSelect
setSelectedCharacterId ==
    /\ \E i \in DOMAIN characters :
          /\ characters[i].id # selectedCharacterId
          /\ selectedCharacterId' = characters[i].id
    /\ UNCHANGED <<images, charStore, imgQueue, charQueue, generatedImages,
                   characters, sourceImage, loadPc, stuckJobs, tasks, lastGenerate,
                   nextId, now, build, faults, reloads, isClearDialogOpen,
                   nextCharId>>

\* handleSaveCharacter up to its await
handleSaveCharacter(maxChars) ==
    /\ nextCharId < maxChars
    /\ nextCharId' = nextCharId + 1
    /\ charQueue' = Append(charQueue, [op |-> "put", ch |-> CharacterOf(nextCharId + 1),
                                       sel |-> NoId])
    /\ UNCHANGED <<images, charStore, imgQueue, generatedImages, characters,
                   selectedCharacterId, sourceImage, loadPc, stuckJobs, tasks,
                   lastGenerate, nextId, now, build, faults, reloads,
                   isClearDialogOpen>>

\* handleSaveCharacter after db.saveCharacter
characterSaved ==
    /\ charQueue # <<>> /\ Head(charQueue).op = "put"
    /\ LET newChar == Head(charQueue).ch
       IN /\ charStore' = charStore \cup {newChar}
          /\ characters' = Append(characters, newChar)
          /\ selectedCharacterId' = newChar.id
    /\ charQueue' = Tail(charQueue)
    /\ UNCHANGED <<images, imgQueue, generatedImages, sourceImage, loadPc,
                   stuckJobs, tasks, lastGenerate, nextId, now, build, faults,
                   reloads, isClearDialogOpen, nextCharId>>

\* handleDeleteCharacter up to its await; the closure keeps the
\* selectedCharacterId of the render in which the button was clicked.
handleDeleteCharacter ==
    /\ Len(charQueue) < MaxQueue
    /\ \E i \in DOMAIN characters :
          charQueue' = Append(charQueue, [op |-> "delete", ch |-> characters[i],
                                          sel |-> selectedCharacterId])
    /\ UNCHANGED <<images, charStore, imgQueue, generatedImages, characters,
                   selectedCharacterId, sourceImage, loadPc, stuckJobs, tasks,
                   lastGenerate, nextId, now, build, faults, reloads,
                   isClearDialogOpen, nextCharId>>

\* handleDeleteCharacter after db.deleteCharacter
characterDeleted ==
    /\ charQueue # <<>> /\ Head(charQueue).op = "delete"
    /\ LET id == Head(charQueue).ch.id
       IN /\ charStore' = {c \in charStore : c.id # id}
          /\ characters' = removeById(characters, id)
          /\ selectedCharacterId' =
                 IF Head(charQueue).sel = id THEN NoId ELSE selectedCharacterId
    /\ charQueue' = Tail(charQueue)
    /\ UNCHANGED <<images, imgQueue, generatedImages, sourceImage, loadPc,
                   stuckJobs, tasks, lastGenerate, nextId, now, build, faults,
                   reloads, isClearDialogOpen, nextCharId>>

-----------------------------------------------------------------------------
(* handleGenerate *)

\* if (!sourceImage || !selectedCharacterId) return;
missingInput(src, selected) == ~Truthy(src) \/ selected = NoId

\* A guard that forgets the look-up of the character.
canGenerateUnchecked(src, selected, chars) == ~missingInput(src, selected)

\* The two early returns of handleGenerate passed.
canGenerate(src, selected, chars) ==
    /\ ~missingInput(src, selected)
    /\ find(chars, selected) # NoRecord

\* The position of one call of handleGenerate / processJob and its locals:
\* the character it was called with, the arguments of the withRetry call in
\* progress, and prompt, resultImage and the caught error once they are set.
\* No error caught.
NoError == [isError |-> FALSE, isObject |-> FALSE, nested |-> NoValue,
            message |-> NoValue, json |-> NoValue]

\* How often processJob and the two service functions have been called for
\* a job.
NoCalls == [processJob |-> 0, createCharacterPrompt |-> 0, generateCharacterImage |-> 0]

\* A call withRetry(fn, retries, delayMs) at the first call of fn: its
\* arguments, the calls of fn so far, the sleeps so far, whether every
\* failure so far was a timeout, and the error its catch holds.
withRetryCall(retries, delayMs) ==
    [retries |-> retries, delayMs |-> delayMs, attempts |-> 1, waits |-> <<>>,
     onlyTimeouts |-> TRUE, caught |-> NoError]

NoRetry == [withRetryCall(0, 0) EXCEPT !.attempts = 0]

\* The Promise.race of withTimeout for one call of the gateway: the call is
\* pending, the timer is armed for ms (the plain copy has no timer) and the
\* race is not won.
withTimeout(b, ms) ==
    [ms |-> IF b = GuardedBuild THEN ms ELSE 0, op |-> "pending",
     timer |-> IF b = GuardedBuild THEN "armed" ELSE "none", won |-> "none"]

NoRace == [ms |-> 0, op |-> "none", timer |-> "none", won |-> "none"]

\* A race in which whoever settles last wins.
settleLast(race, by) ==
    [race EXCEPT !.won = by,
                 !.op = IF by = "op" THEN "settled" ELSE @,
                 !.timer = IF by = "timer" THEN "fired" ELSE @]

\* The call (by = "op") or the timer (by = "timer") settles: the promise of
\* the race takes the first settlement and ignores the second.
settle(race, by) ==
    [race EXCEPT !.won = IF @ = "none" THEN by ELSE @,
                 !.op = IF by = "op" THEN "settled" ELSE @,
                 !.timer = IF by = "timer" THEN "fired" ELSE @]

Task(pc, char, retries, delayMs, prompt, resultImage, error) ==
    [pc |-> pc, char |-> char, retries |-> retries, delayMs |-> delayMs,
     prompt |-> prompt, resultImage |-> resultImage, error |-> error,
     calls |-> NoCalls, given |-> NoValue, retry |-> NoRetry, race |-> NoRace,
     refused |-> NoValue]

\* A new job without the placeholder prompt.
newJobBlank(id, character, t) ==
    GeneratedImage(id, character.id, NoValue, Text(""), t, "processing", NoValue)

\* The record handleGenerate creates.
newJob(id, character, t) ==
    GeneratedImage(id, character.id, NoValue, PendingPrompt, t, "processing", NoValue)

\* setGeneratedImages(prev => [newJob, ...prev])
prepend(job, prev) == <<job>> \o prev

\* handleGenerate up to its await: validate, create the job, show it, and
\* ask the store to save it.
handleGenerate(maxJobs) ==
    IF canGenerate(sourceImage, selectedCharacterId, characters)
    THEN /\ nextId < maxJobs
         /\ \E t \in DateNow :
               LET id == nextId + 1
                   character == find(characters, selectedCharacterId)
                   job == newJob(id, character, t)
               IN /\ now' = t
                  /\ nextId' = id
                  /\ generatedImages' = prepend(job, generatedImages)
                  /\ imgQueue' = Append(imgQueue, Request("put", job, id, "submit"))
                  /\ tasks' = [k \in DOMAIN tasks \cup {id} |->
                                  IF k = id
                                  THEN Task("saving_new", character, 0, 0, NoValue,
                                            NoValue, NoError)
                                  ELSE tasks[k]]
         /\ lastGenerate' = "accepted"
         /\ UNCHANGED <<images, charStore, charQueue, characters,
                        selectedCharacterId, sourceImage, loadPc, stuckJobs, build,
                        faults, reloads, isClearDialogOpen, nextCharId>>
    ELSE /\ lastGenerate' = IF missingInput(sourceImage, selectedCharacterId)
                            THEN "missing_input"
                            ELSE "missing_character"
         /\ UNCHANGED <<images, charStore, imgQueue, charQueue, generatedImages,
                        characters, selectedCharacterId, sourceImage, loadPc,
                        stuckJobs, tasks, nextId, now, build, faults, reloads,
                        isClearDialogOpen, nextCharId>>

\* The position processJob starts in: createCharacterPrompt has called
\* withRetry, whose first performAnalysis has made its call.
started(task, b) ==
    [Task("analyze", task.char, analysisRetries(b), analysisDelayMs(b), NoValue,
          NoValue, NoError)
       EXCEPT !.calls = [task.calls EXCEPT !.processJob = @ + 1,
                                           !.createCharacterPrompt = @ + 1],
              !.retry = withRetryCall(analysisRetries(b), analysisDelayMs(b)),
              !.race = withTimeout(b, AnalysisTimeoutMs)]

\* handleGenerate after db.saveImage(newJob): processJob is called and not
\* awaited.
jobSaved ==
    /\ Settling("submit")
    /\ LET id == Head(imgQueue).id
       IN /\ images' = put(images, Head(imgQueue).rec)
          /\ tasks' = [tasks EXCEPT ![id] = started(tasks[id], build)]
    /\ imgQueue' = Tail(imgQueue)
    /\ UNCHANGED <<charStore, charQueue, generatedImages, characters,
                   selectedCharacterId, sourceImage, loadPc, stuckJobs,
                   lastGenerate, nextId, now, build, faults, reloads,
                   isClearDialogOpen, nextCharId>>

\* db.saveImage(newJob) is rejected: handleGenerate rejects before it calls
\* processJob.
jobSaveRejected ==
    /\ Settling("submit")
    /\ CanReject
    /\ faults' = faults + 1
    /\ tasks' = [tasks EXCEPT ![Head(imgQueue).id].pc = "submit_rejected"]
    /\ imgQueue' = Tail(imgQueue)
    /\ UNCHANGED <<images, charStore, charQueue, generatedImages, characters,
                   selectedCharacterId, sourceImage, loadPc, stuckJobs,
                   lastGenerate, nextId, now, build, reloads, isClearDialogOpen,
                   nextCharId>>

-----------------------------------------------------------------------------
(* processJob *)

Running(j, pc) == j \in DOMAIN tasks /\ tasks[j].pc = pc

\* A failure record that does not take the time of the write.
failedJobUntimed(jobId, char, error, t) ==
    GeneratedImage(jobId, char.id, NoValue, FailedPrompt, 0, "failed",
                   jobErrorMessage(error))

\* A failure record written under an id of its own.
failedJobNewId(jobId, char, error, t) ==
    GeneratedImage(jobId + 1, char.id, NoValue, FailedPrompt, t, "failed",
                   jobErrorMessage(error))

\* The record of the catch block of processJob.
failedJob(jobId, char, error, t) ==
    GeneratedImage(jobId, char.id, NoValue, FailedPrompt, t, "failed",
                   jobErrorMessage(error))

\* A success record that keeps the placeholder prompt.
updatedJobPending(jobId, char, resultImage, prompt, t) ==
    GeneratedImage(jobId, char.id, resultImage, PendingPrompt, t, "completed", NoValue)

\* The record of the success path of processJob.
updatedJob(jobId, char, resultImage, prompt, t) ==
    GeneratedImage(jobId, char.id, resultImage, prompt, t, "completed", NoValue)

\* The catch block of processJob up to its await.
\* A catch block that starts the job again.
catchAndRetry(j, task, error, queue) ==
    /\ tasks' = [tasks EXCEPT ![j] = started(task, build)]
    /\ imgQueue' = queue
    /\ now' = now

catchIn(j, task, error, queue) ==
    \E t \in DateNow :
       /\ now' = t
       /\ tasks' = [tasks EXCEPT ![j] = [task EXCEPT !.pc = "saving_failed",
                                                     !.error = error]]
       /\ imgQueue' = Append(queue, Request("put", failedJob(j, tasks[j].char, error, t),
                                            j, "failed"))

catch(j, error, queue) == catchIn(j, tasks[j], error, queue)

\* Who has settled the race of withTimeout when it rejects with error.
settledBy(error) ==
    IF error \in {NativeError(AnalysisTimeoutMessage),
                  NativeError(GenerationTimeoutMessage)}
    THEN "timer" ELSE "op"

\* The frame of a call of the gateway that has failed with error.
failed(task, error) ==
    [task EXCEPT !.race = settle(@, settledBy(error)),
                 !.retry.caught = error,
                 !.retry.onlyTimeouts = @ /\ settledBy(error) = "timer"]

\* withRetry: fn() has rejected with error.  With no retries left the error
\* goes to the catch of the service function and from there to the catch of
\* processJob; otherwise withRetry sleeps delayMs.
attemptFailedIn(j, task, error, waiting) ==
    IF task.retries <= 0
    THEN catchIn(j, failed(task, error), rethrow(build, error), imgQueue)
    ELSE /\ tasks' = [tasks EXCEPT ![j] = [failed(task, error) EXCEPT !.pc = waiting]]
         /\ UNCHANGED <<imgQueue, now>>

attemptFailed(j, error, waiting) == attemptFailedIn(j, tasks[j], error, waiting)

\* The reason with which the model has refused the request: the answer has
\* no content and its first candidate a finishReason other than STOP.
refusal(content, finishReason) ==
    IF ~Truthy(content) /\ Truthy(finishReason) /\ finishReason # Text("STOP")
    THEN finishReason ELSE NoValue

\* The frame of a pipeline whose call of the gateway has just answered
\* without content.
answered(task, content, finishReason) ==
    [task EXCEPT !.refused = refusal(content, finishReason)]

pipelineFrame ==
    UNCHANGED <<images, charStore, charQueue, generatedImages, characters,
                selectedCharacterId, sourceImage, loadPc, stuckJobs, lastGenerate,
                nextId, build, faults, reloads, isClearDialogOpen, nextCharId>>

\* A call of generateCharacterImage without the avatar.
argsWithoutAvatar(prompt, char) == [prompt |-> prompt, referenceImage |-> NoValue]

\* generateCharacterImage(prompt, char.avatarImage)
generateCharacterImageArgs(prompt, char) ==
    [prompt |-> prompt, referenceImage |-> char.avatarImage]

\* A check that takes only a missing prompt for no description.
noDescriptionIfAbsent(prompt) == prompt = NoValue

\* if (!prompt)
noDescription(prompt) == ~Truthy(prompt)

\* Stage 1: the call of performAnalysis answers.
analysisAnswers(j) ==
    /\ Running(j, "analyze")
    /\ \E response \in AnalysisResponses :
          LET r == performAnalysis(build, response)
          IN IF r.ok
             THEN IF noDescription(r.value)
                  THEN \E t \in DateNow :
                          LET error == NativeError(NoDescriptionMessage)
                          IN /\ now' = t
                             /\ tasks' = [tasks EXCEPT ![j].pc = "saving_failed",
                                                       ![j].prompt = r.value,
                                                       ![j].error = error,
                                                       ![j].race = settle(@, "op")]
                             /\ imgQueue' =
                                    Append(imgQueue,
                                           Request("put",
                                                   failedJob(j, tasks[j].char, error, t),
                                                   j, "failed"))
                  ELSE /\ tasks' = [tasks EXCEPT ![j] =
                                       [Task("generate", tasks[j].char,
                                             generationRetries(build),
                                             generationDelayMs(build), r.value,
                                             NoValue, NoError)
                                          EXCEPT !.calls =
                                                    [tasks[j].calls EXCEPT
                                                        !.generateCharacterImage = @ + 1],
                                                 !.given =
                                                    generateCharacterImageArgs(
                                                       r.value, tasks[j].char),
                                                 !.retry =
                                                    withRetryCall(generationRetries(build),
                                                                  generationDelayMs(build)),
                                                 !.race =
                                                    withTimeout(build, GenerationTimeoutMs)]]
                       /\ UNCHANGED <<imgQueue, now>>
             ELSE attemptFailedIn(j, answered(tasks[j], response.text,
                                              response.finishReason),
                                  r.error, "analyze_wait")
    /\ pipelineFrame

\* Stage 1: the call of performAnalysis rejects.
analysisRejects(j) ==
    /\ Running(j, "analyze")
    /\ \E error \in GatewayErrors : attemptFailed(j, error, "analyze_wait")
    /\ pipelineFrame

\* Stage 1: the timer of withTimeout fires before the call has settled.
analysisTimesOut(j) ==
    /\ Running(j, "analyze")
    /\ build = GuardedBuild
    /\ attemptFailed(j, NativeError(AnalysisTimeoutMessage), "analyze_wait")
    /\ pipelineFrame

\* A retry after the same delay as before.
retriedSameDelay(task, pc, ms) ==
    [task EXCEPT !.pc = pc,
                 !.retries = @ - 1,
                 !.retry = [@ EXCEPT !.attempts = @ + 1,
                                     !.waits = Append(@, task.delayMs),
                                     !.caught = NoError],
                 !.race = withTimeout(build, ms),
                 !.refused = NoValue]

\* The frame after the sleep of withRetry: fn is called again, by
\* withRetry(fn, retries - 1, delayMs * 2).
retried(task, pc, ms) ==
    [task EXCEPT !.pc = pc,
                 !.retries = @ - 1,
                 !.delayMs = @ * 2,
                 !.retry = [@ EXCEPT !.attempts = @ + 1,
                                     !.waits = Append(@, task.delayMs),
                                     !.caught = NoError],
                 !.race = withTimeout(build, ms),
                 !.refused = NoValue]

\* withRetry: the sleep is over; retry with one retry less and twice the delay.
withRetry(j) ==
    /\ \/ Running(j, "analyze_wait") /\ tasks' = [tasks EXCEPT ![j] =
                                                     retried(tasks[j], "analyze",
                                                             AnalysisTimeoutMs)]
       \/ Running(j, "generate_wait") /\ tasks' = [tasks EXCEPT ![j] =
                                                      retried(tasks[j], "generate",
                                                              GenerationTimeoutMs)]
    /\ UNCHANGED <<imgQueue, now>>
    /\ pipelineFrame

\* Stage 2: the call of performGeneration answers.
generationAnswers(j) ==
    /\ Running(j, "generate")
    /\ \E response \in GenerationResponses :
          LET r == performGeneration(build, response)
          IN IF r.ok
             THEN \E t \in DateNow :
                     /\ now' = t
                     /\ tasks' = [tasks EXCEPT ![j].pc = "saving_completed",
                                               ![j].resultImage = r.value,
                                               ![j].race = settle(@, "op")]
                     /\ imgQueue' =
                            Append(imgQueue,
                                   Request("put",
                                           updatedJob(j, tasks[j].char, r.value,
                                                      tasks[j].prompt, t),
                                           j, "completed"))
             ELSE attemptFailedIn(j, answered(tasks[j], response.data,
                                              response.finishReason),
                                  r.error, "generate_wait")
    /\ pipelineFrame

\* Stage 2: the call of performGeneration rejects.
generationRejects(j) ==
    /\ Running(j, "generate")
    /\ \E error \in GatewayErrors : attemptFailed(j, error, "generate_wait")
    /\ pipelineFrame

\* Stage 2: the timer of withTimeout fires before the call has settled.
generationTimesOut(j) ==
    /\ Running(j, "generate")
    /\ build = GuardedBuild
    /\ attemptFailed(j, NativeError(GenerationTimeoutMessage), "generate_wait")
    /\ pipelineFrame

\* Stage 1: the call of performAnalysis rejects with any value.
analysisThrows(j) ==
    /\ Running(j, "analyze")
    /\ \E error \in ThrownValues : attemptFailed(j, error, "analyze_wait")
    /\ pipelineFrame

\* Stage 2: the call of performGeneration rejects with any value.
generationThrows(j) ==
    /\ Running(j, "generate")
    /\ \E error \in ThrownValues : attemptFailed(j, error, "generate_wait")
    /\ pipelineFrame

\* The call of the gateway that lost the race of withTimeout settles after
\* the timer has rejected the race: nobody waits for it.
callSettlesLate(j) ==
    /\ j \in DOMAIN tasks /\ tasks[j].pc # "gone"
    /\ tasks[j].race.won = "timer" /\ tasks[j].race.op = "pending"
    /\ tasks' = [tasks EXCEPT ![j].race = settle(@, "op")]
    /\ UNCHANGED <<imgQueue, now>>
    /\ pipelineFrame

\* The timer of withTimeout, which is never cleared, fires after the call
\* of the gateway has settled the race.
timerFiresLate(j) ==
    /\ j \in DOMAIN tasks /\ tasks[j].pc # "gone"
    /\ tasks[j].race.won = "op" /\ tasks[j].race.timer = "armed"
    /\ tasks' = [tasks EXCEPT ![j].race = settle(@, "timer")]
    /\ UNCHANGED <<imgQueue, now>>
    /\ pipelineFrame

\* A processJob that shows its record without the store having taken it.
terminalShown ==
    /\ Settling("completed") \/ Settling("failed")
    /\ generatedImages' = replaceById(generatedImages, Head(imgQueue).id,
                                      Head(imgQueue).rec)
    /\ tasks' = [tasks EXCEPT ![Head(imgQueue).id].pc = "done"]
    /\ imgQueue' = Tail(imgQueue)
    /\ UNCHANGED <<images, charStore, charQueue, characters, selectedCharacterId,
                   sourceImage, loadPc, stuckJobs, lastGenerate, nextId, now, build,
                   faults, reloads, isClearDialogOpen, nextCharId>>

\* processJob after a db.saveImage (of the success path or of the catch
\* block) has stored its record: the record replaces the job in the state.
terminalSaved ==
    /\ Settling("completed") \/ Settling("failed")
    /\ LET id == Head(imgQueue).id
           job == Head(imgQueue).rec
       IN /\ images' = put(images, job)
          /\ generatedImages' = replaceById(generatedImages, id, job)
          /\ tasks' = [tasks EXCEPT ![id].pc = "done"]
    /\ imgQueue' = Tail(imgQueue)
    /\ UNCHANGED <<charStore, charQueue, characters, selectedCharacterId,
                   sourceImage, loadPc, stuckJobs, lastGenerate, nextId, now, build,
                   faults, reloads, isClearDialogOpen, nextCharId>>

\* db.saveImage(updatedJob) is rejected inside the try: the catch block runs.
completedSaveRejected ==
    /\ Settling("completed")
    /\ CanReject
    /\ faults' = faults + 1
    /\ catch(Head(imgQueue).id, StorageError, Tail(imgQueue))
    /\ UNCHANGED <<images, charStore, charQueue, generatedImages, characters,
                   selectedCharacterId, sourceImage, loadPc, stuckJobs,
                   lastGenerate, nextId, build, reloads, isClearDialogOpen,
                   nextCharId>>

\* db.saveImage(failedJob) is rejected inside the catch block: the promise
\* of processJob rejects.
failedSaveRejected ==
    /\ Settling("failed")
    /\ CanReject
    /\ faults' = faults + 1
    /\ tasks' = [tasks EXCEPT ![Head(imgQueue).id].pc = "rejected"]
    /\ imgQueue' = Tail(imgQueue)
    /\ UNCHANGED <<images, charStore, charQueue, generatedImages, characters,
                   selectedCharacterId, sourceImage, loadPc, stuckJobs,
                   lastGenerate, nextId, now, build, reloads, isClearDialogOpen,
                   nextCharId>>

-----------------------------------------------------------------------------
(* Deleting *)

\* handleDeleteOneImage up to its await: a delete button of the gallery.
handleDeleteOneImage ==
    /\ Len(imgQueue) < MaxQueue
    /\ \E i \in DOMAIN generatedImages :
          imgQueue' = Append(imgQueue, Request("delete", NoRecord,
                                               generatedImages[i].id, "delete"))
    /\ UNCHANGED <<images, charStore, charQueue, generatedImages, characters,
                   selectedCharacterId, sourceImage, loadPc, stuckJobs, tasks,
                   lastGenerate, nextId, now, build, faults, reloads,
                   isClearDialogOpen, nextCharId>>

\* A deletion that also stops the pipeline of the job.
imageDeletedStopsPipeline ==
    /\ Settling("delete")
    /\ images' = delete(images, Head(imgQueue).id)
    /\ generatedImages' = removeById(generatedImages, Head(imgQueue).id)
    /\ imgQueue' = SelectSeq(Tail(imgQueue), LAMBDA r : r.id # Head(imgQueue).id)
    /\ tasks' = [j \in DOMAIN tasks |->
                    IF j = Head(imgQueue).id
                    THEN [tasks[j] EXCEPT !.pc = "gone"] ELSE tasks[j]]
    /\ UNCHANGED <<charStore, charQueue, characters, selectedCharacterId,
                   sourceImage, loadPc, stuckJobs, lastGenerate, nextId, now,
                   build, faults, reloads, isClearDialogOpen, nextCharId>>

\* handleDeleteOneImage after db.deleteImage
imageDeleted ==
    /\ Settling("delete")
    /\ images' = delete(images, Head(imgQueue).id)
    /\ generatedImages' = removeById(generatedImages, Head(imgQueue).id)
    /\ imgQueue' = Tail(imgQueue)
    /\ UNCHANGED <<charStore, charQueue, characters, selectedCharacterId,
                   sourceImage, loadPc, stuckJobs, tasks, lastGenerate, nextId, now,
                   build, faults, reloads, isClearDialogOpen, nextCharId>>

\* handleClearGalleryRequest: the gallery shows "Clear All" when it has images.
handleClearGalleryRequest ==
    /\ Len(generatedImages) > 0
    /\ ~isClearDialogOpen
    /\ isClearDialogOpen' = TRUE
    /\ UNCHANGED <<images, charStore, imgQueue, charQueue, generatedImages,
                   characters, selectedCharacterId, sourceImage, loadPc, stuckJobs,
                   tasks, lastGenerate, nextId, now, build, faults, reloads,
                   nextCharId>>

\* performClearGallery up to its await: the dialog is confirmed.
performClearGalleryWithin(maxQueue) ==
    /\ isClearDialogOpen
    /\ Len(imgQueue) < maxQueue
    /\ imgQueue' = Append(imgQueue, Request("clear", NoRecord, 0, "clear"))
    /\ UNCHANGED <<images, charStore, charQueue, generatedImages, characters,
                   selectedCharacterId, sourceImage, loadPc, stuckJobs, tasks,
                   lastGenerate, nextId, now, build, faults, reloads,
                   isClearDialogOpen, nextCharId>>

performClearGallery == performClearGalleryWithin(MaxQueue)

\* performClearGallery after db.clearAllImages
galleryCleared ==
    /\ Settling("clear")
    /\ images' = NoImages
    /\ generatedImages' = <<>>
    /\ isClearDialogOpen' = FALSE
    /\ imgQueue' = Tail(imgQueue)
    /\ UNCHANGED <<charStore, charQueue, characters, selectedCharacterId,
                   sourceImage, loadPc, stuckJobs, tasks, lastGenerate, nextId, now,
                   build, faults, reloads, nextCharId>>

-----------------------------------------------------------------------------
(* The page is closed or reloaded: the App state and every task of the     *)
(* session are gone, the object stores stay, and the new page mounts.      *)

reload ==
    /\ reloads < MaxReloads
    /\ reloads' = reloads + 1
    /\ imgQueue' = MountQueue
    /\ charQueue' = <<>>
    /\ generatedImages' = <<>>
    /\ characters' = <<>>
    /\ selectedCharacterId' = NoId
    /\ sourceImage' = NoValue
    /\ loadPc' = "cleanup"
    /\ stuckJobs' = <<>>
    /\ tasks' = [k \in DOMAIN tasks |-> [tasks[k] EXCEPT !.pc = "gone"]]
    /\ lastGenerate' = "none"
    /\ isClearDialogOpen' = FALSE
    /\ UNCHANGED <<images, charStore, nextId, now, build, faults, nextCharId>>

-----------------------------------------------------------------------------

\* Every operation; what the user and the environment do is bounded.
Next ==
    \/ cleanupStuckJobs
    \/ cleanupWrite
    \/ cleanupWriteRejected
    \/ loadCharacters
    \/ loadImages
    \/ setSourceImage
    \/ handleSaveCharacter(MaxChars)
    \/ characterSaved
    \/ handleGenerate(MaxJobs)
    \/ jobSaved
    \/ jobSaveRejected
    \/ \E j \in DOMAIN tasks : analysisAnswers(j)
    \/ \E j \in DOMAIN tasks : analysisRejects(j)
    \/ \E j \in DOMAIN tasks : analysisTimesOut(j)
    \/ \E j \in DOMAIN tasks : withRetry(j)
    \/ \E j \in DOMAIN tasks : generationAnswers(j)
    \/ \E j \in DOMAIN tasks : generationRejects(j)
    \/ \E j \in DOMAIN tasks : generationTimesOut(j)
    \/ terminalSaved
    \/ completedSaveRejected
    \/ failedSaveRejected
    \/ handleDeleteOneImage
    \/ imageDeleted
    \/ handleClearGalleryRequest
    \/ performClearGallery
    \/ galleryCleared
    \/ reload

Spec == Init /\ [][Next]_vars

\* Two jobs and the startup sweep: the sessions in which the store accepts
\* every write and the user neither deletes nor clears.
NextSweep ==
    \/ cleanupStuckJobs
    \/ cleanupWrite
    \/ loadCharacters
    \/ loadImages
    \/ setSourceImage
    \/ handleSaveCharacter(MaxChars)
    \/ characterSaved
    \/ handleGenerate(SweepJobs)
    \/ jobSaved
    \/ \E j \in DOMAIN tasks : analysisAnswers(j)
    \/ \E j \in DOMAIN tasks : analysisRejects(j)
    \/ \E j \in DOMAIN tasks : analysisTimesOut(j)
    \/ \E j \in DOMAIN tasks : withRetry(j)
    \/ \E j \in DOMAIN tasks : generationAnswers(j)
    \/ \E j \in DOMAIN tasks : generationRejects(j)
    \/ \E j \in DOMAIN tasks : generationTimesOut(j)
    \/ terminalSaved
    \/ reload

SpecSweep == Init /\ [][NextSweep]_vars

\* The character list and the inputs of handleGenerate: up to FormChars
\* characters are saved, selected and deleted while the page loads and after.
NextForm ==
    \/ cleanupStuckJobs
    \/ loadCharacters
    \/ loadImages
    \/ setSourceImage
    \/ clearSourceImage
    \/ setSelectedCharacterId
    \/ handleSaveCharacter(FormChars)
    \/ characterSaved
    \/ handleDeleteCharacter
    \/ characterDeleted
    \/ handleGenerate(FormJobs)
    \/ jobSaved

SpecForm == Init /\ [][NextForm]_vars

\* One session in which the store accepts every write and nothing is deleted:
\* what the pipelines do when the timers and the store are sure to act and
\* the gateway is not.
NextLive ==
    \/ cleanupStuckJobs
    \/ loadCharacters
    \/ loadImages
    \/ setSourceImage
    \/ handleSaveCharacter(MaxChars)
    \/ characterSaved
    \/ handleGenerate(MaxJobs)
    \/ jobSaved
    \/ \E j \in DOMAIN tasks : analysisAnswers(j)
    \/ \E j \in DOMAIN tasks : analysisRejects(j)
    \/ \E j \in DOMAIN tasks : analysisTimesOut(j)
    \/ \E j \in DOMAIN tasks : withRetry(j)
    \/ \E j \in DOMAIN tasks : generationAnswers(j)
    \/ \E j \in DOMAIN tasks : generationRejects(j)
    \/ \E j \in DOMAIN tasks : generationTimesOut(j)
    \/ terminalSaved

\* A timer that is set fires (setTimeout of withTimeout and of the sleep of
\* withRetry), and a request of the store settles; a call of the gateway
\* need not answer.
Fairness ==
    /\ WF_vars(\E j \in DOMAIN tasks : analysisTimesOut(j))
    /\ WF_vars(\E j \in DOMAIN tasks : generationTimesOut(j))
    /\ WF_vars(\E j \in DOMAIN tasks : withRetry(j))
    /\ WF_vars(cleanupStuckJobs)
    /\ WF_vars(loadCharacters)
    /\ WF_vars(loadImages)
    /\ WF_vars(characterSaved)
    /\ WF_vars(jobSaved)
    /\ WF_vars(terminalSaved)

SpecLive == Init /\ [][NextLive]_vars /\ Fairness

\* The gallery is cleared while the page loads: two jobs, of which none gets
\* an answer of the gateway, the startup sweep after a reload, and the clear
\* dialog, with up to ClearQueue requests waiting on the 'images' store.
NextClear ==
    \/ cleanupStuckJobs
    \/ cleanupWrite
    \/ loadCharacters
    \/ loadImages
    \/ setSourceImage
    \/ handleSaveCharacter(FormChars)
    \/ characterSaved
    \/ handleGenerate(SweepJobs)
    \/ jobSaved
    \/ handleClearGalleryRequest
    \/ performClearGalleryWithin(ClearQueue)
    \/ galleryCleared
    \/ reload

SpecClear == Init /\ [][NextClear]_vars

\* The gateway alone.  The page is loaded, a job of a character with or
\* without avatar is stored and its processJob is in the first call of fn
\* of a call withRetry(fn, retries, delayMs), for every retries up to
\* MaxRetries and every delayMs of Delays.
Delays == {DefaultDelayMs, GenerationDelayMs}

InitGateway ==
    \E id \in 1..MaxAvatars + 1, retries \in 0..MaxRetries, delayMs \in Delays :
       LET character == CharacterOf(id)
           job == newJob(1, character, 0)
       IN /\ images = put(NoImages, job)
          /\ charStore = {character}
          /\ imgQueue = <<>>
          /\ charQueue = <<>>
          /\ generatedImages = <<job>>
          /\ characters = <<character>>
          /\ selectedCharacterId = id
          /\ sourceImage \in {s \in {Text("SRC")} : TRUE}
          /\ loadPc = "done"
          /\ stuckJobs = <<>>
          /\ build \in Builds
          /\ tasks = [k \in {1} |->
                         [started(Task("saving_new", character, 0, 0, NoValue,
                                       NoValue, NoError), build)
                            EXCEPT !.retries = retries,
                                   !.delayMs = delayMs,
                                   !.retry = withRetryCall(retries, delayMs)]]
          /\ lastGenerate = "accepted"
          /\ nextId = 1
          /\ now = 0
          /\ faults = 0
          /\ reloads = 0
          /\ isClearDialogOpen = FALSE
          /\ nextCharId = id

NextGateway ==
    \/ \E j \in DOMAIN tasks : analysisAnswers(j)
    \/ \E j \in DOMAIN tasks : analysisRejects(j)
    \/ \E j \in DOMAIN tasks : analysisTimesOut(j)
    \/ \E j \in DOMAIN tasks : withRetry(j)
    \/ \E j \in DOMAIN tasks : generationAnswers(j)
    \/ \E j \in DOMAIN tasks : generationRejects(j)
    \/ \E j \in DOMAIN tasks : generationTimesOut(j)
    \/ \E j \in DOMAIN tasks : callSettlesLate(j)
    \/ \E j \in DOMAIN tasks : timerFiresLate(j)
    \/ terminalSaved

SpecGateway == InitGateway /\ [][NextGateway]_vars

\* The gateway with calls that reject with any value: what withRetry and
\* the catch blocks make of the values getErrorMessage can be given.
NextErrors ==
    \/ \E j \in DOMAIN tasks : analysisAnswers(j)
    \/ \E j \in DOMAIN tasks : analysisThrows(j)
    \/ \E j \in DOMAIN tasks : withRetry(j)
    \/ \E j \in DOMAIN tasks : generationAnswers(j)
    \/ \E j \in DOMAIN tasks : generationThrows(j)
    \/ terminalSaved

SpecErrors == InitGateway /\ [][NextErrors]_vars

-----------------------------------------------------------------------------
(* Properties *)

Terminal(status) == status \in {"completed", "failed"}

Ids(jobs) == {jobs[i].id : i \in DOMAIN jobs}

\* The ids for which a put request is waiting in the queue.
Writing == {imgQueue[i].id : i \in {k \in DOMAIN imgQueue : imgQueue[k].op = "put"}}

\* A terminal record of the store has no writer left: no put for its id is
\* waiting and its pipeline, if the session has one, is over.
NoWriterLeft ==
    \A j \in DOMAIN images :
       Terminal(images[j].status) =>
          /\ j \notin Writing
          /\ j \in DOMAIN tasks => tasks[j].pc \in {"done", "gone"}

\* C1: for every job id and every interleaving of submit, pipeline
\* completion, startup sweep, delete and clear, a record of the store changes
\* only from processing to completed or to failed, and a record that is
\* completed or failed has no write left to come: at most one terminal write.
C1_OneTerminalWrite ==
    [][/\ \A j \in DOMAIN images \cap DOMAIN images' :
             images'[j] # images[j] =>
                images[j].status = "processing" /\ Terminal(images'[j].status)
       /\ NoWriterLeft
       /\ NoWriterLeft']_vars

\* A pipeline has made its terminal write for a job that the in-memory
\* collection no longer lists.
C1_Witness ==
    \E j \in DOMAIN images :
       /\ Terminal(images[j].status)
       /\ j \in DOMAIN tasks /\ tasks[j].pc = "done"
       /\ j \notin Ids(generatedImages)

WellFormed(job) ==
    /\ job.imageData # NoValue <=> job.status = "completed"
    /\ job.errorMessage # NoValue <=> job.status = "failed"

\* C2: in every reachable state every job record of the store and of the
\* in-memory collection has imageData iff it is completed and errorMessage
\* iff it is failed.
C2_FieldsMatchStatus ==
    /\ \A j \in DOMAIN images : WellFormed(images[j])
    /\ \A i \in DOMAIN generatedImages : WellFormed(generatedImages[i])

\* After a reload the collection shows a job that the sweep has failed, as
\* the store holds it.
C2_Witness ==
    \E i \in DOMAIN generatedImages :
       /\ generatedImages[i].errorMessage = InterruptedMessage
       /\ generatedImages[i].id \in DOMAIN images
       /\ images[generatedImages[i].id] = generatedImages[i]

\* The put request that the pipeline of job j waits for.
PutFor(j) ==
    imgQueue[CHOOSE i \in DOMAIN imgQueue :
                imgQueue[i].op = "put" /\ imgQueue[i].id = j]

\* This step stores the terminal record that the pipeline of job j waits for.
Stored(j, pc) == Running(j, pc) /\ tasks'[j].pc = "done"

\* The record of a job whose two stages have succeeded.
CompletedRecord(j, job) ==
    /\ job.id = j
    /\ job.status = "completed"
    /\ job.prompt = tasks[j].prompt
    /\ job.imageData = tasks[j].resultImage
    /\ job.characterId = tasks[j].char.id
    /\ job.errorMessage = NoValue

\* C3 as stated: once both stages of job j have succeeded, the step that ends
\* its pipeline leaves in the store the completed record with the prompt of
\* stage 1 and the image of stage 2, and the in-memory collection holds the
\* same record under that id.
C3_Original ==
    [][\A j \in DOMAIN tasks :
          (/\ Running(j, "saving_completed")
           /\ tasks[j].resultImage # NoValue
           /\ tasks'[j].pc \notin {"saving_completed", "gone"}) =>
             /\ j \in DOMAIN images'
             /\ CompletedRecord(j, images'[j])
             /\ \E i \in DOMAIN generatedImages' : generatedImages'[i] = images'[j]]_vars

\* C3: once both stages of job j have succeeded and the store has taken the
\* write of the result, the store holds the completed record with the prompt
\* of stage 1 and the image of stage 2 under the id of the job, and the
\* in-memory collection, where it still lists the job, holds that same record
\* in the same place; it lists no job that it did not list before.
C3_CompletedStored ==
    [][\A j \in DOMAIN tasks :
          Stored(j, "saving_completed") =>
             /\ tasks[j].resultImage # NoValue
             /\ tasks[j].prompt # Text("")
             /\ j \in DOMAIN images'
             /\ CompletedRecord(j, images'[j])
             /\ Len(generatedImages') = Len(generatedImages)
             /\ \A i \in DOMAIN generatedImages :
                   generatedImages'[i] =
                      IF generatedImages[i].id = j THEN images'[j]
                      ELSE generatedImages[i]]_vars

\* The pipeline of a job is over, and the store and the collection hold its
\* completed record.
C3_Witness ==
    \E j \in DOMAIN tasks :
       /\ tasks[j].pc = "done"
       /\ tasks[j].resultImage # NoValue
       /\ j \in DOMAIN images
       /\ CompletedRecord(j, images[j])
       /\ \E i \in DOMAIN generatedImages : generatedImages[i] = images[j]

\* The record of a job of which a stage has failed.
FailedRecord(j, job) ==
    /\ job.id = j
    /\ job.status = "failed"
    /\ job.errorMessage = getErrorMessage(tasks[j].error)
    /\ job.prompt = FailedPrompt
    /\ job.imageData = NoValue

\* C4: when a stage of job j has failed, the record that processJob writes is
\* failed, carries the normalized message of the failure, the prompt "Failed"
\* and no imageData; once stored it is the record of the store and replaces
\* the job in the in-memory collection.
C4_FailureRecorded ==
    [][\A j \in DOMAIN tasks :
          (Running(j, "saving_failed") /\ tasks[j].resultImage = NoValue) =>
             /\ FailedRecord(j, PutFor(j).rec)
             /\ Stored(j, "saving_failed") =>
                   /\ images'[j] = PutFor(j).rec
                   /\ generatedImages' =
                         replaceById(generatedImages, j, PutFor(j).rec)]_vars

\* Stage 1 of job j has yielded no description: createCharacterPrompt has
\* returned "" (the plain copy), or has given up on an empty answer of the
\* model (the guarded copy).
EmptyAnalysis(j) ==
    \/ tasks[j].prompt = Text("")
    \/ tasks[j].error = NativeError(EmptyDescriptionMessage)

\* C5: when stage 1 yields an empty prompt for job j, the pipeline goes to
\* its failure write with the message "Analysis failed: No description
\* generated." (with "Gemini returned an empty description. ..." where the
\* guarded copy gives up on an empty answer), stage 2 is never called and no
\* image is produced, and the record written for the job is failed with that
\* message.
C5_EmptyPromptFails ==
    \A j \in DOMAIN tasks :
       EmptyAnalysis(j) =>
          /\ tasks[j].pc \in {"saving_failed", "done", "rejected", "gone"}
          /\ tasks[j].resultImage = NoValue
          /\ tasks[j].prompt = Text("") =>
                tasks[j].error = NativeError(NoDescriptionMessage)
          /\ Running(j, "saving_failed") =>
                /\ PutFor(j).rec.status = "failed"
                /\ PutFor(j).rec.errorMessage = tasks[j].error.message
                /\ PutFor(j).rec.imageData = NoValue
          /\ (tasks[j].pc = "done" /\ j \in DOMAIN images) =>
                /\ images[j].status = "failed"
                /\ images[j].errorMessage = tasks[j].error.message
                /\ images[j].imageData = NoValue

\* Stage 1 has returned an empty prompt and the failed record is stored.
C5_Witness ==
    \E j \in DOMAIN tasks :
       /\ tasks[j].prompt = Text("")
       /\ tasks[j].pc = "done"
       /\ j \in DOMAIN images
       /\ images[j].errorMessage = NoDescriptionMessage

\* Every id that the store, the collection, the queue, the sweep or a
\* pipeline knows.
KnownIds ==
    DOMAIN images \cup Ids(generatedImages) \cup Writing \cup DOMAIN tasks
       \cup Ids(stuckJobs)

\* C6: a valid submit makes one record with a fresh id, status processing
\* and the prompt "Pending analysis...", puts it first in the in-memory
\* collection and does not launch the pipeline; the pipeline of a job is
\* launched by the step that stores this record, and by no other.
C6_SubmitThenLaunch ==
    [][/\ nextId' # nextId =>
             LET job == generatedImages'[1]
             IN /\ job.id \notin KnownIds
                /\ job.status = "processing"
                /\ job.prompt = PendingPrompt
                /\ job.imageData = NoValue /\ job.errorMessage = NoValue
                /\ job.characterId = selectedCharacterId
                /\ generatedImages' = <<job>> \o generatedImages
                /\ DOMAIN tasks' = DOMAIN tasks \cup {job.id}
                /\ tasks'[job.id].pc = "saving_new"
                /\ imgQueue' = Append(imgQueue, Request("put", job, job.id, "submit"))
                /\ images' = images
       /\ \A j \in DOMAIN tasks' :
             (tasks'[j].pc = "analyze" /\ (j \in DOMAIN tasks => tasks[j].pc # "analyze_wait"
                                                                  /\ tasks[j].pc # "analyze")) =>
                /\ j \in DOMAIN tasks /\ Running(j, "saving_new")
                /\ PutFor(j).cont = "submit"
                /\ j \in DOMAIN images'
                /\ images'[j] = PutFor(j).rec
                /\ images'[j].status = "processing"
                /\ images'[j].prompt = PendingPrompt]_vars

\* The pipeline of a job has been launched: its processing record is in the
\* store and first in the collection.
C6_Witness ==
    \E j \in DOMAIN tasks :
       /\ Running(j, "analyze")
       /\ j \in DOMAIN images /\ images[j].status = "processing"
       /\ generatedImages # <<>> /\ generatedImages[1] = images[j]

\* No source image, no selected character, or a selected id that is not in
\* the character list.
InvalidInputs ==
    \/ sourceImage = NoValue
    \/ selectedCharacterId = NoId
    \/ selectedCharacterId \notin Ids(characters)

\* C7: while there is no source image, no selected character, or the
\* selected id is not in the character list, no step, a submit included,
\* creates a job: no id is drawn, no pipeline starts, and the store, the
\* collection and the queue get no record of a job they did not know.
C7_InvalidSubmitCreatesNothing ==
    [][InvalidInputs =>
          /\ nextId' = nextId
          /\ DOMAIN tasks' = DOMAIN tasks
          /\ KnownIds' \subseteq KnownIds
          /\ lastGenerate' = "accepted" => lastGenerate = "accepted"
          /\ (/\ lastGenerate' # lastGenerate
              /\ lastGenerate' \in {"missing_input", "missing_character"}) =>
                UNCHANGED <<images, imgQueue, generatedImages, tasks>>]_vars

\* handleGenerate has returned at the look-up of a selected id that is not
\* in the character list, with a source image set, and no job exists.
C7_Witness ==
    /\ lastGenerate = "missing_character"
    /\ sourceImage # NoValue
    /\ selectedCharacterId # NoId
    /\ selectedCharacterId \notin Ids(characters)
    /\ KnownIds = {}

\* The records of the store that are processing.
Processing(store) == {store[k] : k \in {i \in DOMAIN store : store[i].status = "processing"}}

\* This step is the read of cleanupStuckJobs.
SweepReads ==
    Settling("cleanup_read") /\ ~Settling("cleanup_read")' /\ reloads' = reloads

\* This step ends cleanupStuckJobs: loadData goes on to the characters.
SweepEnds == loadPc = "cleanup" /\ loadPc' = "characters" /\ reloads' = reloads

\* What the sweep does, with message as the errorMessage it writes: it takes
\* the processing records of the store for the stuck jobs, and at its end
\* every stuck job that is still in the store is failed with message, its
\* other fields as the sweep read them.
SweepFails(message) ==
    /\ SweepReads => Range(stuckJobs') = Processing(images)
    /\ SweepEnds =>
          \A i \in DOMAIN stuckJobs' :
             LET job == stuckJobs'[i]
             IN job.id \in DOMAIN images' =>
                   images'[job.id] =
                      GeneratedImage(job.id, job.characterId, job.imageData,
                                     job.prompt, job.createdAt, "failed", message)

\* C8 as stated: the message is "Interrupted by restart".
C8_Original == [][SweepFails(Text("Interrupted by restart"))]_vars

\* C8: after the startup sweep has run to its end, every job that was
\* processing when the sweep read the store, and that is still in the store,
\* is failed with the errorMessage "Interrupted by page reload", and its id,
\* characterId, prompt and createdAt are as they were.
C8_SweepFailsStuckJobs == [][SweepFails(Text("Interrupted by page reload"))]_vars

\* The sweep has ended, and a job that it found processing is in the store
\* as a failed job with the message of the sweep.
C8_Witness ==
    /\ loadPc \in {"characters", "images", "done"}
    /\ \E i \in DOMAIN stuckJobs :
          /\ stuckJobs[i].status = "processing"
          /\ stuckJobs[i].id \in DOMAIN images
          /\ images[stuckJobs[i].id].status = "failed"
          /\ images[stuckJobs[i].id].errorMessage = Text("Interrupted by page reload")
          /\ images[stuckJobs[i].id].prompt = stuckJobs[i].prompt

\* C9: for every content of the store, cleanupStuckJobs run twice in
\* succession leaves the same job records as cleanupStuckJobs run once.
C9_SweepIdempotent ==
    cleanupResult(cleanupResult(images)) = cleanupResult(images)

\* The store holds a processing job, so that a run of the sweep changes the
\* store, beside a job that is not processing.
C9_Witness ==
    /\ cleanupResult(images) # images
    /\ \E j \in DOMAIN images : images[j].status # "processing"

\* C10: the in-memory collection is loaded only when the sweep is over, and
\* a job that it shows as processing is a job of this session: one that
\* handleGenerate has created since the page was loaded.
C10_NoStaleProcessing ==
    /\ loadPc = "done" =>
          \A i \in DOMAIN imgQueue :
             imgQueue[i].cont \notin {"cleanup_read", "cleanup_write", "load_images"}
    /\ loadPc # "done" =>
          \A i \in DOMAIN generatedImages : generatedImages[i].id \in DOMAIN tasks
    /\ \A i \in DOMAIN generatedImages :
          generatedImages[i].status = "processing" =>
             /\ generatedImages[i].id \in DOMAIN tasks
             /\ tasks[generatedImages[i].id].pc # "gone"

\* After a reload the collection is loaded and shows the job that the last
\* session left processing as a failed job.
C10_Witness ==
    /\ loadPc = "done"
    /\ reloads > 0
    /\ \E i \in DOMAIN generatedImages :
          /\ generatedImages[i].status = "failed"
          /\ generatedImages[i].errorMessage = InterruptedMessage
          /\ generatedImages[i].prompt = PendingPrompt

\* C11: under the fairness of the timers and of the store, a pipeline that
\* has been launched for a job makes its terminal write, whatever the gateway
\* does, a call that never answers included.
C11_PipelineEnds ==
    \A j \in 1..MaxJobs :
       (j \in DOMAIN tasks /\ tasks[j].pc = "analyze")
          ~> (j \in DOMAIN tasks /\ tasks[j].pc = "done")

\* C12: processJob never rejects: no call of processJob ends with a rejection
\* of a store write that its catch block has not caught.
C12_NeverRejects ==
    \A j \in DOMAIN tasks : tasks[j].pc # "rejected"

\* The sleeps of a call withRetry(fn, N, D) before its k-th call of fn.
Backoff(D, k) == [i \in 1..(k - 1) |-> D * 2^(i - 1)]

\* This step ends the withRetry call of job j by a rejection.
GivesUp(j) ==
    /\ tasks[j].pc \in {"analyze", "generate"}
    /\ tasks'[j].pc = "saving_failed"
    /\ tasks'[j].retry.caught # NoError

\* C13: in a call withRetry(fn, N, D) the k-th call of fn comes after the
\* sleeps D, 2D, ..., D*2^(k-2) and k is at most N + 1; the call rejects only
\* when the (N+1)-th call of fn has failed, and with the error of that call;
\* when a call of fn succeeds or the withRetry call has rejected, fn is not
\* called again.
C13_RetryBackoff ==
    [][\A j \in DOMAIN tasks :
          LET call == tasks[j].retry
          IN /\ call.attempts <= call.retries + 1
             /\ call.waits = Backoff(call.delayMs, call.attempts)
             /\ tasks[j].pc \in {"analyze", "generate"} =>
                   call.attempts = call.retries - tasks[j].retries + 1
             /\ tasks[j].pc \in {"analyze_wait", "generate_wait"} =>
                   /\ call.attempts <= call.retries
                   /\ tasks[j].delayMs = call.delayMs * 2^(call.attempts - 1)
             /\ GivesUp(j) =>
                   /\ call.attempts = call.retries + 1
                   /\ tasks'[j].retry.attempts = call.attempts
                   /\ tasks'[j].error = rethrow(build, tasks'[j].retry.caught)
             /\ tasks[j].pc \in {"saving_completed", "saving_failed", "done"} =>
                   tasks'[j].retry = call]_vars

\* A call withRetry(fn, 3, 1000), which the app never makes, has rejected
\* after four calls of fn and sleeps of 1000, 2000 and 4000 ms.
C13_Witness ==
    \E j \in DOMAIN tasks :
       /\ tasks[j].pc = "saving_failed"
       /\ tasks[j].retry.retries = 3 /\ tasks[j].retry.delayMs = 1000
       /\ tasks[j].retry.attempts = 4
       /\ tasks[j].retry.waits = <<1000, 2000, 4000>>
       /\ tasks[j].calls.generateCharacterImage = 0

\* C14: every call of the gateway for prompt synthesis runs against the
\* 60 s timer; createCharacterPrompt never makes a 4th attempt, and when
\* every attempt has timed out it has made exactly 3 attempts, with sleeps of
\* 1000 ms and 2000 ms between them, and fails with the timeout error.
C14_AnalysisTimeouts ==
    [][\A j \in DOMAIN tasks :
          /\ tasks[j].pc = "analyze" =>
                /\ tasks[j].race.timer = "armed"
                /\ tasks[j].race.ms = AnalysisTimeoutMs
                /\ tasks[j].retry.attempts <= 3
          /\ (/\ tasks[j].pc = "analyze"
              /\ tasks'[j].pc = "saving_failed"
              /\ tasks'[j].retry.caught # NoError
              /\ tasks'[j].retry.onlyTimeouts) =>
                /\ tasks'[j].retry.attempts = 3
                /\ tasks'[j].retry.waits = <<1000, 2000>>
                /\ tasks'[j].error = NativeError(AnalysisTimeoutMessage)]_vars

\* C15: every call of the gateway for image synthesis runs against the 110 s
\* timer; when every attempt has failed, generateCharacterImage has made
\* exactly 4 attempts, with sleeps of 2, 4 and 8 s between them, and fails
\* with the error of the last attempt.
C15_GenerationRetries ==
    [][\A j \in DOMAIN tasks :
          /\ tasks[j].pc = "generate" =>
                /\ tasks[j].race.timer = "armed"
                /\ tasks[j].race.ms = GenerationTimeoutMs
                /\ tasks[j].retry.attempts <= 4
          /\ (/\ tasks[j].pc = "generate"
              /\ tasks'[j].pc = "saving_failed"
              /\ tasks'[j].retry.caught # NoError) =>
                /\ tasks'[j].retry.attempts = 4
                /\ tasks'[j].retry.waits = <<2000, 4000, 8000>>
                /\ getErrorMessage(tasks'[j].error) =
                      getErrorMessage(tasks'[j].retry.caught)]_vars

\* The timeout errors of withTimeout.
TimeoutErrors ==
    {NativeError(AnalysisTimeoutMessage), NativeError(GenerationTimeoutMessage)}

\* C16: the race of withTimeout is settled once, by whoever is first: when
\* the timer is first the call rejects with the timeout error and the call
\* of the gateway stays pending; when the call is first the outcome is that
\* of the call; and the second to settle, the late call or the late timer,
\* changes nothing of the race's outcome, of the pipeline, of the store or of
\* the collection.
C16_TimeoutRace ==
    [][\A j \in DOMAIN tasks :
          LET race == tasks[j].race
              after == tasks'[j].race
          IN /\ (race.won = "none" /\ after.won = "timer") =>
                   /\ tasks'[j].retry.caught \in TimeoutErrors
                   /\ after.op = "pending"
             /\ (race.won = "none" /\ after.won = "op") =>
                   tasks'[j].retry.caught \notin TimeoutErrors
             /\ (race.won # "none" /\ after.won # "none") =>
                   after.won = race.won
             /\ (race.won # "none" /\ after.won # "none" /\ after # race) =>
                   /\ [tasks'[j] EXCEPT !.race = race] = tasks[j]
                   /\ UNCHANGED <<images, generatedImages, imgQueue>>]_vars

\* The timer has rejected a race and the call of the gateway has settled
\* afterwards, while withRetry sleeps before the next attempt.
C16_Witness ==
    \E j \in DOMAIN tasks :
       /\ tasks[j].pc \in {"analyze_wait", "generate_wait"}
       /\ tasks[j].race.won = "timer"
       /\ tasks[j].race.op = "settled"
       /\ tasks[j].retry.caught \in TimeoutErrors

\* C17: the two stages run in sequence. generateCharacterImage is called
\* only in the step in which createCharacterPrompt returns a prompt, it is
\* given that prompt and the avatar of the character (nothing when the
\* character has none), and a pipeline whose first stage has not returned a
\* prompt has called no generateCharacterImage and holds no result.
C17_StagesInSequence ==
    [][\A j \in DOMAIN tasks' :
          LET task == tasks'[j]
          IN /\ task.calls.generateCharacterImage > 0 =>
                   /\ task.calls.createCharacterPrompt = 1
                   /\ Truthy(task.prompt)
                   /\ task.given = [prompt |-> task.prompt,
                                    referenceImage |-> task.char.avatarImage]
             /\ task.calls.generateCharacterImage = 0 =>
                   /\ task.given = NoValue
                   /\ task.resultImage = NoValue
                   /\ task.pc \notin {"generate", "generate_wait",
                                      "saving_completed"}
             /\ (j \in DOMAIN tasks /\ task.calls.generateCharacterImage
                                          # tasks[j].calls.generateCharacterImage) =>
                   /\ tasks[j].pc = "analyze"
                   /\ tasks[j].calls.generateCharacterImage = 0
                   /\ tasks[j].prompt = NoValue
                   /\ task.pc = "generate"]_vars

\* generateCharacterImage runs with the prompt of the first stage and the
\* avatar of the character.
C17_Witness ==
    \E j \in DOMAIN tasks :
       /\ tasks[j].pc = "generate"
       /\ tasks[j].calls.generateCharacterImage = 1
       /\ tasks[j].given.referenceImage # NoValue
       /\ tasks[j].given.prompt = tasks[j].prompt

\* The pcs of a pipeline that has ended: terminal record stored, terminal
\* write rejected, first write rejected, or page gone.
Ended == {"done", "rejected", "submit_rejected", "gone"}

\* C18: a job is not retried by the orchestrator. processJob,
\* createCharacterPrompt and generateCharacterImage are each called at most
\* once for an id; once the catch block has taken over (the failed record is
\* being written) or the pipeline has ended, no call of the gateway follows
\* and the pipeline never runs again; and a pipeline starts only for a job
\* whose id the submission has just drawn.
C18_NoOrchestratorRetry ==
    [][\A j \in DOMAIN tasks' :
          LET task == tasks'[j]
          IN /\ task.calls.processJob <= 1
             /\ task.calls.createCharacterPrompt <= 1
             /\ task.calls.generateCharacterImage <= 1
             /\ (j \in DOMAIN tasks /\ tasks[j].pc \in Ended \cup {"saving_failed"}) =>
                   /\ task.pc \in Ended
                         \cup (IF tasks[j].pc = "saving_failed"
                               THEN {"saving_failed"} ELSE {})
                   /\ task.calls = tasks[j].calls
                   /\ task.retry.attempts = tasks[j].retry.attempts
             /\ (j \in DOMAIN tasks /\ task.calls.processJob
                                          # tasks[j].calls.processJob) =>
                   /\ tasks[j].pc = "saving_new"
                   /\ tasks[j].calls = NoCalls
             /\ j \notin DOMAIN tasks =>
                   /\ j \notin DOMAIN images
                   /\ j \notin Ids(generatedImages)
                   /\ task.pc = "saving_new"
                   /\ task.calls = NoCalls]_vars

\* A pipeline has ended with a failed record in the store after one call of
\* createCharacterPrompt.
C18_Witness ==
    \E j \in DOMAIN tasks :
       /\ tasks[j].pc = "done"
       /\ tasks[j].calls.processJob = 1
       /\ tasks[j].calls.createCharacterPrompt = 1
       /\ j \in DOMAIN images
       /\ images[j].status = "failed"

\* No submission, deletion, clearing, load or pipeline is in progress: no
\* request of the 'images' store is pending, loadData has returned and every
\* pipeline has ended.
Quiescent ==
    /\ imgQueue = <<>>
    /\ loadPc = "done"
    /\ \A j \in DOMAIN tasks : tasks[j].pc \in Ended

\* The job records of the collection in memory and those of the store.
InMemory == {generatedImages[i] : i \in DOMAIN generatedImages}
InStore == {images[k] : k \in DOMAIN images}

\* C19: whenever nothing is in progress, the collection in memory and the
\* store hold the same job records, with the same ids, statuses and fields,
\* and the collection holds each of them once.
C19_MemoryMatchesStore ==
    Quiescent =>
       /\ InMemory = InStore
       /\ Len(generatedImages) = Cardinality(DOMAIN images)

\* The pcs of a pipeline in flight: a stage is running, withRetry sleeps,
\* or the terminal record is being written.
InFlight == {"analyze", "analyze_wait", "generate", "generate_wait",
             "saving_completed", "saving_failed"}

\* C20: deleting a job from the store, by a single delete or by clearing
\* the gallery, while its pipeline is in flight does not stop the pipeline:
\* the step leaves the pipeline and its pending write as they are; and the
\* terminal write of a pipeline is an upsert, so that after it the store
\* holds the terminal record under the id of the job, whether or not the
\* job was in the store before.
C20_DeletedJobResurrected ==
    [][\A j \in DOMAIN tasks :
          /\ (tasks[j].pc \in InFlight /\ j \in DOMAIN images
                 /\ j \notin DOMAIN images') =>
                /\ Settling("delete") \/ Settling("clear")
                /\ tasks'[j] = tasks[j]
                /\ imgQueue' = Tail(imgQueue)
          /\ (Stored(j, "saving_completed") \/ Stored(j, "saving_failed")) =>
                /\ j \in DOMAIN images'
                /\ images'[j] = Head(imgQueue).rec
                /\ images'[j].id = j
                /\ Terminal(images'[j].status)]_vars

\* A pipeline is writing its terminal record for a job that is no longer in
\* the store.
C20_Witness ==
    \E j \in DOMAIN tasks :
       /\ tasks[j].pc \in {"saving_completed", "saving_failed"}
       /\ j \notin DOMAIN images
       /\ \E i \in DOMAIN imgQueue :
             /\ imgQueue[i].op = "put"
             /\ imgQueue[i].id = j
             /\ Terminal(imgQueue[i].rec.status)

\* A terminal write of the pipeline of job j is stored in this step.
TerminalWrite(j) == Stored(j, "saving_completed") \/ Stored(j, "saving_failed")

\* The job has its own terminal record in the store and in the collection.
OwnTerminalRecord(j) ==
    /\ j \in DOMAIN images
    /\ images[j].id = j
    /\ Terminal(images[j].status)
    /\ \E i \in DOMAIN generatedImages : generatedImages[i] = images[j]

\* C21: with several pipelines in flight, the terminal write of job j
\* changes the record with id j and nothing else: the store gets the record
\* under j and keeps every other record, the collection keeps its length and
\* changes exactly its elements with id j, so that a job the collection
\* lists ends with its own terminal record in the store and in the
\* collection, and the other pipelines and their pending writes stay as they
\* are.  A job whose pipeline has ended keeps its terminal record in the
\* store, and the collection shows that same record wherever it lists the
\* job, whatever the other pipelines write afterwards.
C21_TargetedReplace ==
    [][\A j \in DOMAIN tasks :
          /\ TerminalWrite(j) =>
                LET job == Head(imgQueue).rec
                IN /\ job.id = j
                   /\ DOMAIN images' = DOMAIN images \cup {j}
                   /\ images'[j] = job
                   /\ \A k \in DOMAIN images \ {j} : images'[k] = images[k]
                   /\ Len(generatedImages') = Len(generatedImages)
                   /\ \A i \in DOMAIN generatedImages :
                         generatedImages'[i] =
                            IF generatedImages[i].id = j THEN job
                            ELSE generatedImages[i]
                   /\ j \in Ids(generatedImages) =>
                         \E i \in DOMAIN generatedImages' :
                            generatedImages'[i] = images'[j]
                   /\ \A k \in DOMAIN tasks \ {j} : tasks'[k] = tasks[k]
                   /\ imgQueue' = Tail(imgQueue)
          /\ tasks'[j].pc = "done" =>
                /\ j \in DOMAIN images'
                /\ images'[j].id = j
                /\ Terminal(images'[j].status)
                /\ \A i \in DOMAIN generatedImages' :
                      generatedImages'[i].id = j => generatedImages'[i] = images'[j]]_vars

\* Two pipelines were in flight together and the one submitted last has
\* ended first: its terminal record is in the store and in the collection
\* while the other job, still processing, waits for its terminal write.
C21_Witness ==
    \E j, k \in DOMAIN tasks :
       /\ j < k
       /\ tasks[k].pc = "done"
       /\ OwnTerminalRecord(k)
       /\ tasks[j].pc \in {"saving_completed", "saving_failed"}
       /\ \E i \in DOMAIN generatedImages :
             generatedImages[i].id = j /\ generatedImages[i].status = "processing"

\* C22: the list getAllImages returns holds every record of the store once
\* and is ordered by createdAt, never increasing from one element to the
\* next, whatever submits, terminal writes, sweeps and reloads have made of
\* the store; so is the collection in the step in which loadData sets it.
C22_NewestFirst ==
    [][LET list == getAllImages(images')
       IN /\ Len(list) = Cardinality(DOMAIN images')
          /\ Range(list) = {images'[k] : k \in DOMAIN images'}
          /\ \A i, k \in DOMAIN list :
                i < k => list[i].createdAt >= list[k].createdAt
          /\ (Settling("load_images") /\ loadPc' = "done") =>
                /\ generatedImages' = getAllImages(images)
                /\ \A i, k \in DOMAIN generatedImages' :
                      i < k => generatedImages'[i].createdAt
                                  >= generatedImages'[k].createdAt]_vars

\* The store holds two jobs of which the one with the greater key is the
\* newer, so that the list is not in the order of the keys.
C22_Witness ==
    /\ Cardinality(DOMAIN images) = 2
    /\ \E j, k \in DOMAIN images :
          /\ j < k
          /\ images[j].createdAt < images[k].createdAt
          /\ getAllImages(images)[1] = images[k]

\* The put request at the head of the queue of the 'images' store is stored
\* in this step: the request leaves the queue and the storage has not
\* rejected it.
PutStored ==
    /\ imgQueue # <<>>
    /\ Head(imgQueue).op = "put"
    /\ imgQueue' # imgQueue
    /\ Len(imgQueue') <= Len(imgQueue)
    /\ reloads' = reloads
    /\ faults' = faults

\* C23: every write of a job is an upsert of the whole record under its id.
\* The store holds each record under the id the record carries, so never
\* two records with one id; a put that is stored leaves the store with
\* exactly the record of the request under that id and every other record
\* as it was; and the record of a job, from the write of the submission to
\* the terminal write of its pipeline, carries the id the submission drew
\* and the id of the character the submission captured.
C23_UpsertById ==
    [][/\ \A k \in DOMAIN images' : images'[k].id = k
       /\ PutStored =>
             LET job == Head(imgQueue).rec
             IN /\ job.id = Head(imgQueue).id
                /\ DOMAIN images' = DOMAIN images \cup {job.id}
                /\ images'[job.id] = job
                /\ \A k \in DOMAIN images \ {job.id} : images'[k] = images[k]
       /\ \A j \in DOMAIN tasks :
             /\ (TerminalWrite(j)
                    \/ (Running(j, "saving_new") /\ tasks'[j].pc = "analyze")) =>
                   /\ PutStored
                   /\ images'[j].id = j
                   /\ images'[j].characterId = tasks[j].char.id
             /\ j \in DOMAIN images' =>
                   /\ images'[j].id = j
                   /\ images'[j].characterId = tasks'[j].char.id]_vars

\* The terminal record of a pipeline has replaced the record of the
\* submission under the same id.
C23_Witness ==
    \E j \in DOMAIN tasks :
       /\ tasks[j].pc = "done"
       /\ DOMAIN images = {j}
       /\ images[j].id = j
       /\ images[j].characterId = tasks[j].char.id
       /\ Terminal(images[j].status)
       /\ images[j].prompt # PendingPrompt

\* The message has the reason among its pieces.
Contains(message, reason) == \E i \in DOMAIN message : message[i] = reason[1]

\* C24: a job ended by a refusal of the model, at the prompt stage or at
\* the image stage, with reason R has in its terminal record the status
\* failed and an errorMessage that contains R.
C24_RefusalRecorded ==
    [][\A j \in DOMAIN tasks :
          (TerminalWrite(j) /\ tasks[j].refused # NoValue) =>
             /\ images'[j].status = "failed"
             /\ Contains(images'[j].errorMessage, tasks[j].refused)]_vars

\* A call of the gateway fails in this step: the catch of withRetry holds
\* what fn has rejected with.
AttemptFails(j) ==
    /\ tasks[j].pc \in {"analyze", "generate"}
    /\ tasks'[j].pc \in {"analyze_wait", "generate_wait", "saving_failed"}
    /\ tasks'[j].retry.attempts = tasks[j].retry.attempts
    /\ tasks'[j].race.won # "timer"
    /\ tasks'[j].prompt = tasks[j].prompt

\* The message by the first rule that matches: the message of a native
\* Error, else the nested error.message of an object, else the message
\* field of an object, else the JSON text of the value.
FirstMatchingRule(error) ==
    IF error.isError THEN error.message
    ELSE IF error.isObject /\ error.nested # NoValue THEN error.nested
    ELSE IF error.isObject /\ error.message # NoValue THEN error.message
    ELSE error.json

\* C25: getErrorMessage gives, of whatever a call has rejected with, a
\* string, and that string is the one of the first matching rule: the message
\* of a native Error, the nested error.message of an object, the message
\* field of an object, the JSON text of anything else.
C25_FirstMatchingRule ==
    [][\A j \in DOMAIN tasks :
          AttemptFails(j) =>
             LET error == tasks'[j].retry.caught
             IN /\ getErrorMessage(error) # NoValue
                /\ getErrorMessage(error) = FirstMatchingRule(error)]_vars

\* C26: the store write of a terminal transition comes before the update
\* of the collection.  Whenever the collection comes to show a completed or
\* failed record it did not show before, the store holds that same record
\* under its id: either loadData has just read it from the store, or the put
\* of a pipeline for exactly that record has just been stored; a terminal
\* write that the storage rejects shows nothing.
C26_StoreBeforeMemory ==
    [][\A i \in DOMAIN generatedImages' :
          LET job == generatedImages'[i]
          IN (Terminal(job.status) /\ job \notin Range(generatedImages)) =>
                /\ job.id \in DOMAIN images'
                /\ images'[job.id] = job
                /\ \/ Settling("load_images")
                   \/ /\ PutStored
                      /\ Head(imgQueue).cont \in {"completed", "failed"}
                      /\ Head(imgQueue).rec = job
                      /\ tasks[job.id].pc \in {"saving_completed", "saving_failed"}]_vars

\* A pipeline has shown its terminal record in the collection, and the
\* store holds it.
C26_Witness ==
    \E j \in DOMAIN tasks :
       /\ tasks[j].pc = "done"
       /\ loadPc = "done"
       /\ j \in DOMAIN images
       /\ \E i \in DOMAIN generatedImages :
             /\ generatedImages[i].id = j
             /\ Terminal(generatedImages[i].status)
             /\ generatedImages[i] = images[j]

\* The pipeline of job j builds its terminal record in this step and asks
\* the store to save it.
TerminalRecordBuilt(j) ==
    /\ tasks'[j].pc \in {"saving_completed", "saving_failed"}
    /\ tasks'[j].pc # tasks[j].pc

\* C27: the terminal record of a pipeline, completed or failed, takes as
\* createdAt the time at which the pipeline writes it, not the time of the
\* submission: it is the value of Date.now() when the record is built, it is
\* not less than the createdAt of the record it replaces, and the list of
\* the store puts a job that ended later before a job submitted later.
C27_CreatedAtRefreshed ==
    [][\A j \in DOMAIN tasks :
          /\ TerminalRecordBuilt(j) =>
                LET request == imgQueue'[Len(imgQueue')]
                IN /\ request.op = "put"
                   /\ request.id = j
                   /\ Terminal(request.rec.status)
                   /\ request.rec.createdAt = now'
                   /\ now' >= now
                   /\ j \in DOMAIN images =>
                         request.rec.createdAt >= images[j].createdAt
          /\ TerminalWrite(j) =>
                /\ images'[j].createdAt = Head(imgQueue).rec.createdAt
                /\ j \in DOMAIN images =>
                      images'[j].createdAt >= images[j].createdAt
                /\ \A k \in DOMAIN images' :
                      images'[k].createdAt < images'[j].createdAt =>
                         \E a, b \in DOMAIN getAllImages(images') :
                            /\ a < b
                            /\ getAllImages(images')[a] = images'[j]
                            /\ getAllImages(images')[b] = images'[k]]_vars

\* The job submitted first has ended after the submission of the second
\* job and at a later time, and the list of the store shows it first.
C27_Witness ==
    /\ DOMAIN images = {1, 2}
    /\ Terminal(images[1].status)
    /\ images[1].createdAt > images[2].createdAt
    /\ getAllImages(images)[1] = images[1]
    /\ 1 \in DOMAIN tasks /\ tasks[1].pc = "done"

\* A write of the loop of cleanupStuckJobs is stored in this step.
SweepWrite == PutStored /\ Head(imgQueue).cont = "cleanup_write"

\* C28: the startup sweep changes only jobs that are processing.  Its read
\* leaves the store as it is, and each of its writes replaces a record that
\* is in the store with the status processing: the write adds no record and
\* removes none, and every other record, completed, failed or processing,
\* stays as it was in all fields.
C28_SweepFrame ==
    [][/\ SweepReads => images' = images
       /\ SweepWrite =>
             LET job == Head(imgQueue).rec
             IN /\ DOMAIN images' = DOMAIN images
                /\ job.id \in DOMAIN images
                /\ images[job.id].status = "processing"
                /\ \A k \in DOMAIN images \ {job.id} : images'[k] = images[k]
                /\ \A k \in DOMAIN images :
                      Terminal(images[k].status) => images'[k] = images[k]]_vars

\* The jobs of the current session: those handleGenerate has created since
\* the page was loaded.
SessionJobs == {j \in DOMAIN tasks : tasks[j].pc # "gone"}

\* C29: the startup sweep never fails a job of the current session.  The
\* list of stuck jobs the sweep reads holds no job of the session, no write
\* of the sweep has the id of a job of the session, and the record of a job
\* of the session never carries the errorMessage of the sweep, whenever
\* the submission comes while the page loads.
C29_SweepSparesSession ==
    [][/\ SweepReads => Ids(stuckJobs') \cap SessionJobs = {}
       /\ SweepWrite => Head(imgQueue).id \notin SessionJobs
       /\ \A j \in SessionJobs' :
             j \in DOMAIN images' => images'[j].errorMessage # InterruptedMessage]_vars

\* While a write of the sweep for a job of the previous session waits on
\* the store, a job submitted in this session is stored as processing and
\* its pipeline runs.
C29_Witness ==
    /\ Settling("cleanup_write")
    /\ \E j \in SessionJobs :
          /\ tasks[j].pc = "analyze"
          /\ j \in DOMAIN images
          /\ images[j].status = "processing"

\* C30: whenever the collection shows a job as processing, the submission
\* or the pipeline of that job is still running in this session, also after
\* the storage has rejected the first write of handleGenerate or a terminal
\* write of processJob.
C30_ProcessingHasPipeline ==
    \A i \in DOMAIN generatedImages :
       generatedImages[i].status = "processing" =>
          /\ generatedImages[i].id \in DOMAIN tasks
          /\ tasks[generatedImages[i].id].pc \in InFlight \cup {"saving_new"}

====
